---------------------------- MODULE Spec2Model ----------------------------
(***************************************************************************)
(* NSE Trade Data Analyzer (src/app.py).                                   *)
(*                                                                         *)
(* The script is a Streamlit page: every interaction with a widget re-runs *)
(* the script from top to bottom with the widgets' current values.  The    *)
(* state is the cached dataset, the values of the three input widgets and  *)
(* what the last run computed (final_df, summary, the workbook).           *)
(*                                                                         *)
(* Timestamps are whole seconds of the trading day (the CSV column has the *)
(* format %H:%M:%S).  Symbols are strings, modelled as sequences of        *)
(* character codes so that slicing and ordering are computed.  Prices are  *)
(* exact numbers; a mean is the exact fraction sum/count in lowest terms   *)
(* (binary floating-point rounding is not modelled).                       *)
(***************************************************************************)
EXTENDS Integers, Sequences, FiniteSets, TLC

\* Largest timestamp (seconds) of the record that varies between datasets.
MaxT == 4
\* Largest small bucket width offered to the number input.
MaxWidth == 2
\* Largest number of symbols chosen in the multiselect.
MaxSelected == 2

\* number_input(min_value=1, max_value=21600)
MinBin == 1
MaxBin == 21600
\* symbol[:25]
SheetNameLen == 25
\* df.sample(10)
SampleSize == 10

VARIABLES df, symbols, bin_seconds, time_range, final_df, summary, outcome, sheets

vars == <<df, symbols, bin_seconds, time_range, final_df, summary, outcome, sheets>>

--------------------------------------------------------------------------
(* Helpers for sequences and numbers *)

Range(s) == {s[i] : i \in 1..Len(s)}

Min2(a, b) == IF a <= b THEN a ELSE b

RECURSIVE GCD(_, _)
GCD(a, b) == IF b = 0 THEN a ELSE GCD(b, a % b)

RECURSIVE SumPrice(_, _)
\* Sum of the column "Price" over the rows I of s.
SumPrice(s, I) ==
    IF I = {} THEN 0
    ELSE LET i == CHOOSE j \in I : TRUE
         IN  s[i].Price + SumPrice(s, I \ {i})

RECURSIVE SumQuantity(_, _)
\* Sum of the column "Quantity Traded" over the rows I of s.
SumQuantity(s, I) ==
    IF I = {} THEN 0
    ELSE LET i == CHOOSE j \in I : TRUE
         IN  s[i].Quantity + SumQuantity(s, I \ {i})

\* Python's order on strings: by code point, a proper prefix first.
StrLess(a, b) ==
    \E k \in 1..(Min2(Len(a), Len(b)) + 1) :
        /\ \A j \in 1..(k - 1) : a[j] = b[j]
        /\ \/ k = Len(a) + 1 /\ k <= Len(b)
           \/ k <= Len(a) /\ k <= Len(b) /\ a[k] < b[k]

\* Python's slice s[:n].
Prefix(s, n) == SubSeq(s, 1, Min2(Len(s), n))

\* strftime("%H:%M:%S") of a time of day given in seconds.
Strftime(t) == <<t \div 3600, (t \div 60) % 60, t % 60>>

--------------------------------------------------------------------------
(* The dataset *)

SymA  == <<65, 66>>
SymL1 == [i \in 1..(SheetNameLen + 1) |-> IF i <= SheetNameLen THEN 88 ELSE 49]
SymL2 == [i \in 1..(SheetNameLen + 1) |-> IF i <= SheetNameLen THEN 88 ELSE 50]

Times == 0..MaxT

Rec(n, s, t, p, q) ==
    [SNo |-> n, Symbol |-> s, Series |-> "EQ", Timestamp |-> t, Price |-> p, Quantity |-> q]

\* The rows every dataset of the model shares.
BaseRows ==
    << Rec(1, SymA, 0, 100, 10), Rec(2, SymL2, 0, 50, 7),  Rec(3, SymA, 1, 200, 20),
       Rec(4, SymL1, 2, 300, 1), Rec(5, SymL2, 2, 70, 1),  Rec(6, SymL2, 2, 75, 2),
       Rec(7, SymL1, 3, 500, 2), Rec(8, SymL1, 3, 100, 3), Rec(9, SymA, 4, 100, 5) >>

\* load_data: the rows of the CSV file, typed.  The last row varies.
load_data(t) == Append(BaseRows, Rec(Len(BaseRows) + 1, SymA, t, 250, 4))


--------------------------------------------------------------------------
(* One run of the script *)

\* df[df["Symbol"].isin(symbols)]
filtered_df(d, syms) == SelectSeq(d, LAMBDA r : r.Symbol \in Range(syms))

\* filtered_df["Timestamp"].min() and .max(): the ends of the slider.
min_time(d, syms) ==
    LET T == {r.Timestamp : r \in Range(filtered_df(d, syms))}
    IN  CHOOSE t \in T : \A u \in T : t <= u

max_time(d, syms) ==
    LET T == {r.Timestamp : r \in Range(filtered_df(d, syms))}
    IN  CHOOSE t \in T : \A u \in T : u <= t

\* A mask that leaves out the end of the window.
InWindowOpenEnd(ts, tr) == ts >= tr.start /\ ts < tr.end

\* The mask of final_df: Timestamp >= time_range[0] and Timestamp <= time_range[1].
InWindow(ts, tr) == ts >= tr.start /\ ts <= tr.end

\* final_df before the "Time Bin" column is added.
WindowRows(d, syms, tr) ==
    SelectSeq(filtered_df(d, syms), LAMBDA r : InWindow(r.Timestamp, tr))

\* Binning that rounds the elapsed time up to a bucket boundary.
assign_time_bin_ceil(ts, start_time, width) ==
    start_time + (((ts - start_time) + width - 1) \div width) * width

\* Binning that rounds the elapsed time to the nearest bucket boundary.
assign_time_bin_round(ts, start_time, width) ==
    start_time + ((2 * (ts - start_time) + width) \div (2 * width)) * width

\* Binning anchored at midnight instead of the start of the window.
assign_time_bin_midnight(ts, start_time, width) == (ts \div width) * width

\* assign_time_bin: delta in seconds, floor-divided by the width.
assign_time_bin(ts, start_time, width) ==
    LET delta     == ts - start_time
        bin_start == (delta \div width) * width
    IN  start_time + bin_start

\* final_df["Time Bin"] = final_df["Timestamp"].apply(assign_time_bin)
WithTimeBin(rows, start_time, width) ==
    [i \in 1..Len(rows) |->
        [SNo |-> rows[i].SNo, Symbol |-> rows[i].Symbol, Series |-> rows[i].Series,
         Timestamp |-> rows[i].Timestamp, Price |-> rows[i].Price,
         Quantity |-> rows[i].Quantity,
         TimeBin |-> assign_time_bin(rows[i].Timestamp, start_time, width)]]

\* Grouping by the symbol alone: one key per symbol, at its first bucket.
GroupKeysBySymbol(fin) ==
    {<<fin[i].Symbol, fin[i].TimeBin>> : i \in
        {i \in 1..Len(fin) :
            \A j \in 1..Len(fin) :
                fin[j].Symbol = fin[i].Symbol => fin[i].TimeBin <= fin[j].TimeBin}}

\* The keys of groupby(["Symbol", "Time Bin"]): the pairs that occur.
GroupKeys(fin) == {<<fin[i].Symbol, fin[i].TimeBin>> : i \in 1..Len(fin)}

\* The rows of one group.
GroupIdx(fin, key) ==
    {i \in 1..Len(fin) : fin[i].Symbol = key[1] /\ fin[i].TimeBin = key[2]}

\* groupby sorts the groups by their keys.
KeyLess(a, b) == StrLess(a[1], b[1]) \/ (a[1] = b[1] /\ a[2] < b[2])

RECURSIVE SortKeys(_)
SortKeys(K) ==
    IF K = {} THEN <<>>
    ELSE LET m == CHOOSE k \in K : \A o \in K \ {k} : KeyLess(k, o)
         IN  <<m>> \o SortKeys(K \ {m})

\* "Price": "mean" -- the exact fraction, in lowest terms.
Mean(fin, I) ==
    LET s == SumPrice(fin, I)
        n == Cardinality(I)
        g == GCD(s, n)
    IN  [num |-> s \div g, den |-> n \div g]

\* "Quantity Traded": "sum"
Total(fin, I) == SumQuantity(fin, I)

\* Aggregating over every row of the symbol, whatever its bucket.
AggRowWholeSymbol(fin, key) ==
    LET I == {i \in 1..Len(fin) : fin[i].Symbol = key[1]}
    IN  [Symbol |-> key[1], TimeBin |-> key[2],
         Price |-> Mean(fin, I), Quantity |-> Total(fin, I)]

\* .agg({"Price": "mean", "Quantity Traded": "sum"}) of one group.
AggRow(fin, key) ==
    [Symbol |-> key[1], TimeBin |-> key[2],
     Price |-> Mean(fin, GroupIdx(fin, key)),
     Quantity |-> Total(fin, GroupIdx(fin, key))]

\* summary = final_df.groupby(["Symbol", "Time Bin"], as_index=False).agg(...)
Summarize(fin) ==
    LET keys == SortKeys(GroupKeys(fin))
    IN  [j \in 1..Len(keys) |-> AggRow(fin, keys[j])]

\* A script without the branch for the empty frame.
OutcomeAlwaysOk(rows) == "ok"

\* if final_df.empty: warning ... else: the aggregation
Outcome(rows) == IF rows = <<>> THEN "nodata" ELSE "ok"

--------------------------------------------------------------------------
(* The export *)

\* temp = summary[summary["Symbol"] == symbol], "Time Bin" formatted and renamed.
SheetRows(summ, symbol) ==
    LET temp == SelectSeq(summ, LAMBDA r : r.Symbol = symbol)
    IN  [j \in 1..Len(temp) |->
            [Symbol |-> temp[j].Symbol, Timestamp |-> Strftime(temp[j].TimeBin),
             AveragePrice |-> temp[j].Price, Quantity |-> temp[j].Quantity]]

\* The writer, in write mode, reuses a sheet whose name it already has: the new
\* cells go over the old ones from the top, and the cells below them stay.
to_excel(book, name, rows) ==
    IF \E i \in 1..Len(book) : book[i].name = name
    THEN [i \in 1..Len(book) |->
            IF book[i].name = name
            THEN [name |-> name,
                  rows |-> rows \o SubSeq(book[i].rows, Len(rows) + 1, Len(book[i].rows))]
            ELSE book[i]]
    ELSE Append(book, [name |-> name, rows |-> rows])

RECURSIVE WriteSheets(_, _, _)
\* for symbol in symbols: temp.to_excel(writer, sheet_name=symbol[:25])
WriteSheets(book, summ, syms) ==
    IF syms = <<>> THEN book
    ELSE WriteSheets(to_excel(book, Prefix(Head(syms), SheetNameLen), SheetRows(summ, Head(syms))),
                     summ, Tail(syms))

\* What one run of the script leaves, for the widgets' values of that run.
Run(d, syms, width, tr, clicked) ==
    IF syms = <<>>
    THEN [final_df |-> <<>>, summary |-> <<>>, outcome |-> "idle", sheets |-> <<>>]
    ELSE LET rows == WindowRows(d, syms, tr)
         IN  IF Outcome(rows) = "nodata"
             THEN [final_df |-> <<>>, summary |-> <<>>, outcome |-> "nodata", sheets |-> <<>>]
             ELSE LET fin  == WithTimeBin(rows, tr.start, width)
                      summ == Summarize(fin)
                  IN  [final_df |-> fin, summary |-> summ, outcome |-> "ok",
                       sheets |-> IF clicked THEN WriteSheets(<<>>, summ, syms) ELSE <<>>]

--------------------------------------------------------------------------
(* The widgets *)

NoRange == [start |-> 0, end |-> 0]

\* st.slider(min_value=min_time, max_value=max_time, value=(min_time, max_time)):
\* a slider whose ends changed, or that the last run did not draw, starts at
\* its default; otherwise it keeps the value the user gave it.
SliderValue(d, oldsyms, newsyms, tr) ==
    IF newsyms = <<>> THEN NoRange
    ELSE LET lo == min_time(d, newsyms)
             hi == max_time(d, newsyms)
         IN  IF oldsyms # <<>> /\ lo = min_time(d, oldsyms) /\ hi = max_time(d, oldsyms)
             THEN tr
             ELSE [start |-> lo, end |-> hi]

\* A slider that does not order its two values.
SliderAcceptsUnordered(a, b, lo, hi) == lo <= a /\ a <= hi /\ lo <= b /\ b <= hi

\* The slider returns a pair within its ends, lower value first.
SliderAccepts(a, b, lo, hi) == lo <= a /\ a <= b /\ b <= hi

\* The number input takes a value between min_value and max_value.
NumberInputAccepts(v) == MinBin <= v /\ v <= MaxBin

Rerun(syms, width, tr, clicked) ==
    LET r == Run(df, syms, width, tr, clicked)
    IN  /\ symbols' = syms
        /\ bin_seconds' = width
        /\ time_range' = tr
        /\ final_df' = r.final_df
        /\ summary' = r.summary
        /\ outcome' = r.outcome
        /\ sheets' = r.sheets
        /\ UNCHANGED df

Init ==
    /\ \E t \in Times : df = load_data(t)
    /\ Len(df) >= SampleSize
    /\ symbols = <<>>
    /\ bin_seconds = MinBin
    /\ time_range = NoRange
    /\ final_df = <<>>
    /\ summary = <<>>
    /\ outcome = "idle"
    /\ sheets = <<>>

\* The multiselect offers sorted(df["Symbol"].unique()); a choice is appended.
SelectSymbol ==
    \E s \in {r.Symbol : r \in Range(df)} \ Range(symbols) :
        /\ Len(symbols) < MaxSelected
        /\ LET syms == Append(symbols, s)
           IN  Rerun(syms, bin_seconds, SliderValue(df, symbols, syms, time_range), FALSE)

DeselectSymbol ==
    \E s \in Range(symbols) :
        LET syms == SelectSeq(symbols, LAMBDA x : x # s)
        IN  Rerun(syms, bin_seconds, SliderValue(df, symbols, syms, time_range), FALSE)

WidthInputs == (0..MaxWidth) \cup {MaxBin, MaxBin + 1}

SetBinSeconds ==
    \E v \in WidthInputs :
        /\ NumberInputAccepts(v)
        /\ v # bin_seconds
        /\ Rerun(symbols, v, time_range, FALSE)

SetTimeRange ==
    /\ symbols # <<>>
    /\ LET lo == min_time(df, symbols)
           hi == max_time(df, symbols)
       IN  \E a \in Times, b \in Times :
        /\ SliderAccepts(a, b, lo, hi)
        /\ [start |-> a, end |-> b] # time_range
        /\ Rerun(symbols, bin_seconds, [start |-> a, end |-> b], FALSE)

\* The button is drawn only when final_df is not empty.
GenerateExcel ==
    /\ outcome = "ok"
    /\ Rerun(symbols, bin_seconds, time_range, TRUE)

Next == SelectSymbol \/ DeselectSymbol \/ SetBinSeconds \/ SetTimeRange \/ GenerateExcel

Spec == Init /\ [][Next]_vars

--------------------------------------------------------------------------
(* Properties *)

Selected(r) == r.Symbol \in Range(symbols)

\* The rows of the dataset the current request asks for.
Wanted == {r \in Range(df) : Selected(r) /\ time_range.start <= r.Timestamp
                                          /\ r.Timestamp <= time_range.end}

\* The rows of final_df that a row of summary stands for.
Contributing(row) ==
    {i \in 1..Len(final_df) :
        final_df[i].Symbol = row.Symbol /\ final_df[i].TimeBin = row.TimeBin}

\* The rows of summary of one symbol.
RowsOf(s) == {j \in 1..Len(summary) : summary[j].Symbol = s}

RECURSIVE SeqSum(_)
SeqSum(q) == IF q = <<>> THEN 0 ELSE Head(q) + SeqSum(Tail(q))

\* C1 -- Bucket coverage: every record of the filtered set lies in the bucket
\* it was given: Time Bin <= t < Time Bin + width.
BucketCoverage ==
    \A i \in 1..Len(final_df) :
        /\ final_df[i].TimeBin <= final_df[i].Timestamp
        /\ final_df[i].Timestamp < final_df[i].TimeBin + bin_seconds

BucketCoverageWitness ==
    /\ outcome = "ok"
    /\ \E i \in 1..Len(final_df) :
          /\ time_range.start < final_df[i].TimeBin
          /\ final_df[i].TimeBin < final_df[i].Timestamp
    /\ \E i \in 1..Len(final_df) : final_df[i].TimeBin = final_df[i].Timestamp

\* C2 -- Aggregate completeness: every filtered record has exactly one row of
\* summary with its (symbol, bucket) pair, and every row of summary has at
\* least one such record; so the rows partition the filtered records.
AggregateCompleteness ==
    /\ \A i \in 1..Len(final_df) :
          Cardinality({j \in 1..Len(summary) : i \in Contributing(summary[j])}) = 1
    /\ \A j \in 1..Len(summary) : Contributing(summary[j]) # {}

AggregateCompletenessWitness ==
    /\ outcome = "ok"
    /\ \E j \in 1..Len(summary) : Cardinality(Contributing(summary[j])) >= 2
    /\ \E j, k \in 1..Len(summary) :
          summary[j].Symbol = summary[k].Symbol /\ summary[j].TimeBin # summary[k].TimeBin
    /\ \E j, k \in 1..Len(summary) : summary[j].Symbol # summary[k].Symbol
    \* a bucket of the window that no record fell in, and that has no row
    /\ \E b \in time_range.start..time_range.end :
          /\ (b - time_range.start) % bin_seconds = 0
          /\ \A j \in 1..Len(summary) : summary[j].TimeBin # b

\* C3 -- Filter exactness: a record of the dataset is in the filtered set if
\* and only if its symbol is selected and start <= t <= end, and it is there once.
FilterExactness ==
    symbols # <<>> =>
        /\ \A r \in Range(df) :
              (\E i \in 1..Len(final_df) : final_df[i].SNo = r.SNo) <=> r \in Wanted
        /\ \A i, j \in 1..Len(final_df) : final_df[i].SNo = final_df[j].SNo => i = j

FilterExactnessWitness ==
    /\ outcome = "ok"
    /\ \E i \in 1..Len(final_df) : final_df[i].Timestamp = time_range.end
    /\ \E r \in Range(df) :
          /\ Selected(r)
          /\ r.Timestamp = time_range.start - 1
          /\ \A i \in 1..Len(final_df) : final_df[i].SNo # r.SNo

\* C4 -- Single bucket at full-range width: when the width equals the duration
\* of the window, every symbol with a filtered record has exactly one row.
SingleBucketAtFullWidth ==
    (outcome = "ok" /\ bin_seconds = time_range.end - time_range.start) =>
        \A i \in 1..Len(final_df) : Cardinality(RowsOf(final_df[i].Symbol)) = 1

\* C4, as amended -- with the width equal to the duration of the window, the
\* buckets of a symbol are the one at the start of the window if it has a
\* record before the end, and the one at the end of the window if it has a
\* record at the end: one row, or two when it has both.
FullWidthBuckets ==
    (outcome = "ok" /\ bin_seconds = time_range.end - time_range.start) =>
        \A s \in Range(symbols) :
            {summary[j].TimeBin : j \in RowsOf(s)} =
                {time_range.start : r \in {r \in Wanted : r.Symbol = s /\ r.Timestamp < time_range.end}}
                \cup {time_range.end : r \in {r \in Wanted : r.Symbol = s /\ r.Timestamp = time_range.end}}

FullWidthBucketsWitness ==
    /\ outcome = "ok"
    /\ bin_seconds = time_range.end - time_range.start
    /\ bin_seconds >= 2
    /\ \E i \in 1..Len(final_df) :
          /\ time_range.start < final_df[i].Timestamp
          /\ final_df[i].Timestamp < time_range.end
    /\ \E s \in Range(symbols) : Cardinality(RowsOf(s)) = 2
    /\ \E s \in Range(symbols) : Cardinality(RowsOf(s)) = 1

\* C5 -- No silent loss on a sheet-name collision: after an export the rows of
\* every requested symbol are the rows of a sheet of its own.
NoLossOnSheetNameCollision ==
    sheets # <<>> =>
        \E f \in [1..Len(symbols) -> 1..Len(sheets)] :
            /\ \A j, k \in 1..Len(symbols) : f[j] = f[k] => j = k
            /\ \A k \in 1..Len(symbols) :
                  sheets[f[k]].rows = SheetRows(summary, symbols[k])

\* C6 -- Validation before computation: whenever the filter or the aggregation
\* has run, the width is within [1, 21600] and the window has start <= end.
ValidationBeforeComputation ==
    (outcome # "idle" \/ final_df # <<>> \/ summary # <<>> \/ sheets # <<>>) =>
        /\ bin_seconds >= MinBin
        /\ bin_seconds <= MaxBin
        /\ time_range.start <= time_range.end

ValidationBeforeComputationWitness ==
    /\ outcome = "ok"
    /\ summary # <<>>
    /\ bin_seconds = MaxBin
    /\ time_range.start = time_range.end

\* C7 -- Empty result is a normal outcome: when no record of a selected symbol
\* is in the window the run ends in the "no data" state with nothing
\* aggregated and nothing exported, and the export cannot be asked for.
EmptyResultIsNormal ==
    (symbols # <<>> /\ Wanted = {}) =>
        /\ outcome = "nodata"
        /\ final_df = <<>>
        /\ summary = <<>>
        /\ sheets = <<>>
        /\ ~ ENABLED GenerateExcel

EmptyResultIsNormalWitness ==
    /\ symbols # <<>>
    /\ Wanted = {}
    /\ outcome = "nodata"
    /\ time_range.start < time_range.end

\* C8 -- Aggregate values: the quantity of a row is the sum of the quantities
\* of its records, and its price times their number is the sum of their prices.
AggregateValues ==
    \A j \in 1..Len(summary) :
        LET mine == SelectSeq(final_df, LAMBDA r : r.Symbol = summary[j].Symbol
                                                 /\ r.TimeBin = summary[j].TimeBin)
            qty   == [i \in 1..Len(mine) |-> mine[i].Quantity]
            price == [i \in 1..Len(mine) |-> mine[i].Price]
        IN  /\ summary[j].Quantity = SeqSum(qty)
            /\ summary[j].Price.den > 0
            /\ summary[j].Price.num * Len(mine) = SeqSum(price) * summary[j].Price.den

AggregateValuesWitness ==
    /\ outcome = "ok"
    /\ \E j \in 1..Len(summary) :
          /\ Cardinality(Contributing(summary[j])) >= 2
          /\ summary[j].Price.den > 1
    /\ \E j, k \in 1..Len(summary) :
          summary[j].Symbol = summary[k].Symbol /\ summary[j].TimeBin # summary[k].TimeBin

\* The order of strftime's strings.
TimeStrLess(a, b) ==
    \/ a[1] < b[1]
    \/ a[1] = b[1] /\ a[2] < b[2]
    \/ a[1] = b[1] /\ a[2] = b[2] /\ a[3] < b[3]

\* C9 -- Export sheet contents: the sheets are those of the requested symbols,
\* in the order given, and the sheet of a symbol holds the rows of summary of
\* that symbol, all of them and no other, by ascending time.
ExportSheetContents ==
    sheets # <<>> =>
        /\ Len(sheets) = Len(symbols)
        /\ \A k \in 1..Len(sheets) :
              LET rows == sheets[k].rows
              IN  /\ \A i \in 1..Len(rows) : rows[i].Symbol = symbols[k]
                  /\ Len(rows) = Cardinality(RowsOf(symbols[k]))
                  /\ \A j \in RowsOf(symbols[k]) :
                        \E i \in 1..Len(rows) :
                            /\ rows[i].Timestamp = Strftime(summary[j].TimeBin)
                            /\ rows[i].AveragePrice = summary[j].Price
                            /\ rows[i].Quantity = summary[j].Quantity
                  /\ \A i \in 1..(Len(rows) - 1) :
                        TimeStrLess(rows[i].Timestamp, rows[i + 1].Timestamp)

\* C10 -- Single shared anchor: every Time Bin is the start of the window plus
\* k widths, k = floor((t - start) / width) >= 0, so records of different
\* symbols with the same timestamp have the same Time Bin.
SingleSharedAnchor ==
    /\ \A i \in 1..Len(final_df) :
          \E k \in 0..(final_df[i].Timestamp - time_range.start) :
              /\ final_df[i].TimeBin = time_range.start + k * bin_seconds
              /\ k * bin_seconds <= final_df[i].Timestamp - time_range.start
              /\ final_df[i].Timestamp - time_range.start < (k + 1) * bin_seconds
    /\ \A j \in 1..Len(summary) :
          \E k \in 0..(time_range.end - time_range.start) :
              summary[j].TimeBin = time_range.start + k * bin_seconds
    /\ \A i, j \in 1..Len(final_df) :
          final_df[i].Timestamp = final_df[j].Timestamp =>
              final_df[i].TimeBin = final_df[j].TimeBin

SingleSharedAnchorWitness ==
    /\ outcome = "ok"
    /\ time_range.start % bin_seconds # 0
    /\ \E i, j \in 1..Len(final_df) :
          /\ final_df[i].Symbol # final_df[j].Symbol
          /\ final_df[i].Timestamp = final_df[j].Timestamp
          /\ final_df[i].TimeBin > time_range.start
    \* the two symbols' first trades in the window are at different times
    /\ \E i, j \in 1..Len(final_df) :
          /\ final_df[i].Symbol # final_df[j].Symbol
          /\ \A m \in 1..Len(final_df) :
                /\ final_df[m].Symbol = final_df[i].Symbol
                      => final_df[i].Timestamp <= final_df[m].Timestamp
                /\ final_df[m].Symbol = final_df[j].Symbol
                      => final_df[j].Timestamp <= final_df[m].Timestamp
          /\ final_df[i].Timestamp # final_df[j].Timestamp

==========================================================================
